---------------------------- MODULE Spec2Model ----------------------------
(***************************************************************************)
(* GUARDIAN-V: the /api/verify handler of src/server.ts (lines 15-65) and  *)
(* the orchestrator flow the repository documents in PYTHON_PSEUDO_CODE    *)
(* (lines 137-168).                                                        *)
(*                                                                         *)
(* Numbers.  A confidence is counted in units of 0.005, so 1.0 is 200,     *)
(* 0.85 is 170 and 0.6 is 120.  The engines answer in multiples of 0.01    *)
(* (even counts), so the sum of two answers is even and halving it is      *)
(* exact.  The arithmetic of the model is exact; for every pair of values  *)
(* the engines draw from here the IEEE-754 result of (v + l) / 2 lands in  *)
(* the same routing band as the exact one.                                 *)
(*                                                                         *)
(* JavaScript values.  A value read from a parsed reply is a number,       *)
(* undefined (the field is absent) or NaN (arithmetic on undefined).       *)
(***************************************************************************)
EXTENDS Integers, Sequences, FiniteSets, TLC

\* ------------------------------------------------------------------ bounds

\* Requests in flight at the same time.
NumRequests == 2

Requests == 1..NumRequests

\* High-severity descriptors in one engine reply.
MaxHigh == 2

\* The calls of handleFileUpload (change events of the file input).
NumUploads == 2
Uploads == 1..NumUploads

\* ------------------------------------------------------- program constants

\* server.ts:55  finalConfidence > 0.85
VERIFIED_THRESHOLD == 170
\* server.ts:55  finalConfidence > 0.6
HITL_THRESHOLD == 120
\* PYTHON_PSEUDO_CODE, server.ts:161  if score < 0.85
ORCH_THRESHOLD == 170
\* The top of the documented range: 'confidence' (0-1), server.ts:31
ONE == 200

\* --------------------------------------------------------- JavaScript values

Num(n) == [t |-> "number", n |-> n]
Undefined == [t |-> "undefined", n |-> 0]
NaN == [t |-> "NaN", n |-> 0]

IsNum(a) == a.t = "number"

\* a + b on numbers; undefined + anything is NaN, NaN is absorbing.
JsAdd(a, b) == IF IsNum(a) /\ IsNum(b) THEN Num(a.n + b.n) ELSE NaN

\* a / 2.  Every sum halved here is even (see Numbers above).
JsHalf(a) == IF IsNum(a) THEN Num(a.n \div 2) ELSE NaN

\* a >= k for a number literal k; any comparison with NaN is false.
JsGe(a, k) == IsNum(a) /\ a.n >= k

\* a > k for a number literal k; any comparison with NaN is false.
JsGt(a, k) == IsNum(a) /\ a.n > k

\* ------------------------------------------------------------ engine replies

\* Confidences inside the documented range [0,1]: 0, 0.6, 0.85, 1.0.
InRange == {0, 120, 170, 200}
\* Answers outside it: -0.2 and 1.5.
OutOfRange == {-40, 300}

\* What the 'confidence' field of a vision reply object, or the 'logicScore'
\* field of a logic reply object, can hold (Undefined: the field is absent).
FieldValues == {Num(n) : n \in InRange \cup OutOfRange} \cup {Undefined}

\* response.text: the empty string, text that is not JSON, the JSON text
\* "null", or a JSON object whose score field holds f and whose 'anomalies'
\* (vision) or 'discrepancies' (logic) array holds `high` descriptors of high
\* severity.  Here the arrays hold none.
Texts ==
    {[form |-> "empty", field |-> Undefined, high |-> 0],
     [form |-> "garbage", field |-> Undefined, high |-> 0],
     [form |-> "null", field |-> Undefined, high |-> 0]}
    \cup {[form |-> "object", field |-> f, high |-> 0] : f \in FieldValues}

\* ai.models.generateContent either rejects or resolves with a text.
Replies ==
    {[kind |-> "reject", text |-> [form |-> "empty", field |-> Undefined, high |-> 0]]}
    \cup {[kind |-> "text", text |-> x] : x \in Texts}

\* Replies whose arrays hold 0..MaxHigh descriptors of high severity, with
\* the scores 0.85 and 1.0.
AnomalyReplies ==
    {[kind |-> "reject", text |-> [form |-> "empty", field |-> Undefined, high |-> 0]]}
    \cup {[kind |-> "text",
           text |-> [form |-> "object", field |-> Num(n), high |-> h]] :
              n \in {170, 200}, h \in 0..MaxHigh}

\* response.text || "{}": the empty string is falsy.
OrEmptyObject(text) ==
    IF text.form = "empty"
    THEN [form |-> "object", field |-> Undefined, high |-> 0]
    ELSE text

\* JSON.parse throws on text that is not JSON.
JsonParseThrows(text) == text.form = "garbage"

\* JSON.parse of JSON text: null, or an object with its score field and
\* its descriptors.
JsonParse(text) ==
    IF text.form = "null"
    THEN [t |-> "null", score |-> Undefined, high |-> 0]
    ELSE [t |-> "object", score |-> text.field, high |-> text.high]

\* The value of a result variable before its assignment.
Unset == [t |-> "unset", score |-> Undefined, high |-> 0]

\* req.body.documentImage: absent, a string without a comma, a data URL.
\* The handler reads it once, to build the vision call.
Images == {"missing", "noComma", "dataUrl"}

\* ------------------------------------------------------------------- state

VARIABLES
    apiKey,        \* process.env.GEMINI_API_KEY is set
    flow,          \* r -> "none" | "handler" | "orchestrator"
    pc,            \* r -> where the request's coroutine is suspended
    inflight,      \* r -> the engine call awaited, with what it was given
    visionResult,  \* r -> handler's visionResult, orchestrator's vision_res
    logicResult,   \* r -> handler's logicResult
    calls,         \* r -> the engines called, in the order of the calls
    responses,     \* r -> the HTTP responses sent, in order
    gate,          \* r -> orchestrator: "unknown" | "passed" | "failed"
    tasks,         \* r -> orchestrator: vision / forensic task states
    score,         \* r -> orchestrator: aggregate_scores' value
    tokens,        \* r -> orchestrator: proofs generated
    purges,        \* r -> orchestrator: the purge_pii calls completed
    result,        \* r -> orchestrator: the VerificationResult returned
    reviewed,      \* r -> the Manual Override button last clicked for r
    activeTab,           \* App: the tab shown
    isUploading,         \* App: useState(false)
    verificationResult,  \* App: useState(null)
    currentStep,         \* App: useState(0)
    scanningMessage,     \* App: useState("")
    run                  \* u -> where that handleFileUpload call is suspended

uiVars == <<activeTab, isUploading, verificationResult, currentStep,
            scanningMessage, run>>

vars == <<apiKey, flow, pc, inflight, visionResult, logicResult, calls,
          responses, gate, tasks, score, tokens, purges, result, reviewed,
          uiVars>>

orchVars == <<gate, tasks, score, tokens, purges, result>>

\* The value of verificationResult before a result is published.
Null == [t |-> "null"]

NoResult == [status |-> "none", reason |-> "", proof_token |-> FALSE]
NoTasks == [vision |-> "none", forensic |-> "none"]
NoCall == [engine |-> "none", data |-> "", input |-> Unset]

Init ==
    /\ apiKey \in BOOLEAN
    /\ flow = [r \in Requests |-> "none"]
    /\ pc = [r \in Requests |-> "idle"]
    /\ inflight = [r \in Requests |-> NoCall]
    /\ visionResult = [r \in Requests |-> Unset]
    /\ logicResult = [r \in Requests |-> Unset]
    /\ calls = [r \in Requests |-> <<>>]
    /\ responses = [r \in Requests |-> <<>>]
    /\ gate = [r \in Requests |-> "unknown"]
    /\ tasks = [r \in Requests |-> NoTasks]
    /\ score = [r \in Requests |-> Undefined]
    /\ tokens = [r \in Requests |-> 0]
    /\ purges = [r \in Requests |-> <<>>]
    /\ result = [r \in Requests |-> NoResult]
    /\ reviewed = [r \in Requests |-> "none"]
    /\ activeTab = "dashboard"
    /\ isUploading = FALSE
    /\ verificationResult = Null
    /\ currentStep = 0
    /\ scanningMessage = ""
    /\ run = [u \in Uploads |-> [pc |-> "idle", i |-> 0, file |-> "none"]]

\* ------------------------------------------------------ /api/verify handler

\* The responses a request has been sent, and the 200 responses among them.
Sent(r) == {responses[r][i] : i \in 1..Len(responses[r])}
Successes(r) == {x \in Sent(r) : x.code = 200}
AllSuccesses == UNION {Successes(r) : r \in Requests}

\* a < k for a number literal k; any comparison with NaN is false.
JsLt(a, k) == IsNum(a) /\ a.n < k

\* A slip in server.ts:51: the sum is not halved.
FinalConfidenceSum(v, l) == JsAdd(v.score, l.score)

\* server.ts:51
FinalConfidence(v, l) == JsHalf(JsAdd(v.score, l.score))

\* A slip in server.ts:55: both comparisons include the threshold.
RouteInclusive(c) ==
    IF JsGe(c, VERIFIED_THRESHOLD) THEN "VERIFIED"
    ELSE IF JsGe(c, HITL_THRESHOLD) THEN "PENDING_HITL"
    ELSE "REJECTED"

\* A slip in server.ts:55: the first comparison is turned around.
RouteFlipped(c) ==
    IF JsLt(c, VERIFIED_THRESHOLD) THEN "VERIFIED"
    ELSE IF JsGt(c, HITL_THRESHOLD) THEN "PENDING_HITL"
    ELSE "REJECTED"

\* server.ts:55
Route(c) ==
    IF JsGt(c, VERIFIED_THRESHOLD) THEN "VERIFIED"
    ELSE IF JsGt(c, HITL_THRESHOLD) THEN "PENDING_HITL"
    ELSE "REJECTED"

\* server.ts:19
ConfigErrorBody ==
    [code |-> 500, error |-> "API Key not configured", status |-> "",
     confidence |-> Undefined, vision |-> Unset, logic |-> Unset]

\* server.ts:63
CatchBody ==
    [code |-> 500, error |-> "Verification failed", status |-> "",
     confidence |-> Undefined, vision |-> Unset, logic |-> Unset]

\* A slip in server.ts:51: the confidence is kept in a variable of the module
\* and added to by every request, instead of in a const of the handler.
SuccessBodyAccumulated(v, l) ==
    LET before == {x.confidence : x \in AllSuccesses}
        total == IF before = {} THEN FinalConfidence(v, l)
                 ELSE JsAdd(CHOOSE c \in before : TRUE, FinalConfidence(v, l))
    IN  [code |-> 200, error |-> "", status |-> Route(total),
         confidence |-> total, vision |-> v, logic |-> l]

\* server.ts:53-60 (id and timestamp carry no decision and are left out)
SuccessBody(v, l) ==
    [code |-> 200, error |-> "", status |-> Route(FinalConfidence(v, l)),
     confidence |-> FinalConfidence(v, l), vision |-> v, logic |-> l]

\* res.json / res.status(500).json: one response written to the socket.
Send(rs, body) == Append(rs, body)

\* A slip in server.ts:61-64: the catch block logs and answers nothing.
CatchSilent(rs) == rs

\* server.ts:61-64: the catch block answers 500.
Catch(rs) == Send(rs, CatchBody)

\* server.ts:32  documentImage.split(',')[1]: the text after the first
\* comma, undefined when the string holds no comma.
ImageData(img) == IF img = "dataUrl" THEN "payload" ELSE "undefined"

\* server.ts:26-37: the vision call and the inlineData it carries.
VisionCall(img) == [engine |-> "vision", data |-> ImageData(img), input |-> Unset]
\* server.ts:42-46: the logic call and the vision result in its prompt.
LogicCall(v) == [engine |-> "logic", data |-> "", input |-> v]

\* A slip in server.ts:26-46: the logic call is started together with the
\* vision call instead of after it.
ReceiveParallel(r, img) ==
    /\ pc[r] = "idle"
    /\ flow' = [flow EXCEPT ![r] = "handler"]
    /\ IF ~apiKey
       THEN /\ responses' = [responses EXCEPT ![r] = Send(@, ConfigErrorBody)]
            /\ pc' = [pc EXCEPT ![r] = "done"]
            /\ UNCHANGED <<calls, inflight>>
       ELSE IF img = "missing"
       THEN /\ responses' = [responses EXCEPT ![r] = Catch(@)]
            /\ pc' = [pc EXCEPT ![r] = "done"]
            /\ UNCHANGED <<calls, inflight>>
       ELSE /\ calls' = [calls EXCEPT ![r] = @ \o <<"vision", "logic">>]
            /\ inflight' = [inflight EXCEPT ![r] = VisionCall(img)]
            /\ pc' = [pc EXCEPT ![r] = "awaitVision"]
            /\ responses' = responses
    /\ UNCHANGED <<uiVars, apiKey, reviewed, visionResult, logicResult, orchVars>>

\* A slip in server.ts:18-20: the credential is not checked before the call.
ReceiveNoKeyCheck(r, img) ==
    /\ pc[r] = "idle"
    /\ flow' = [flow EXCEPT ![r] = "handler"]
    /\ IF img = "missing"
       THEN /\ responses' = [responses EXCEPT ![r] = Catch(@)]
            /\ pc' = [pc EXCEPT ![r] = "done"]
            /\ UNCHANGED <<calls, inflight>>
       ELSE /\ calls' = [calls EXCEPT ![r] = Append(@, "vision")]
            /\ inflight' = [inflight EXCEPT ![r] = VisionCall(img)]
            /\ pc' = [pc EXCEPT ![r] = "awaitVision"]
            /\ responses' = responses
    /\ UNCHANGED <<uiVars, apiKey, reviewed, visionResult, logicResult, orchVars>>

\* server.ts:15-37: from the request's arrival to the first await.
Receive(r, img) ==
    /\ pc[r] = "idle"
    /\ flow' = [flow EXCEPT ![r] = "handler"]
    /\ IF ~apiKey
       THEN /\ responses' = [responses EXCEPT ![r] = Send(@, ConfigErrorBody)]
            /\ pc' = [pc EXCEPT ![r] = "done"]
            /\ UNCHANGED <<calls, inflight>>
       ELSE IF img = "missing"
       THEN \* documentImage.split throws a TypeError inside the try
            /\ responses' = [responses EXCEPT ![r] = Catch(@)]
            /\ pc' = [pc EXCEPT ![r] = "done"]
            /\ UNCHANGED <<calls, inflight>>
       ELSE /\ calls' = [calls EXCEPT ![r] = Append(@, "vision")]
            /\ inflight' = [inflight EXCEPT ![r] = VisionCall(img)]
            /\ pc' = [pc EXCEPT ![r] = "awaitVision"]
            /\ responses' = responses
    /\ UNCHANGED <<uiVars, apiKey, reviewed, visionResult, logicResult, orchVars>>

\* A slip in server.ts:39: visionResult is a variable of the module, shared
\* by all requests, instead of a const of the handler.
VisionReplyShared(r, reply) ==
    /\ pc[r] = "awaitVision"
    /\ IF reply.kind = "reject" \/ JsonParseThrows(OrEmptyObject(reply.text))
       THEN /\ responses' = [responses EXCEPT ![r] = Catch(@)]
            /\ pc' = [pc EXCEPT ![r] = "done"]
            /\ inflight' = [inflight EXCEPT ![r] = NoCall]
            /\ UNCHANGED <<visionResult, calls>>
       ELSE /\ visionResult' =
                [q \in Requests |-> JsonParse(OrEmptyObject(reply.text))]
            /\ calls' = [calls EXCEPT ![r] = Append(@, "logic")]
            /\ inflight' = [inflight EXCEPT ![r] = LogicCall(visionResult'[r])]
            /\ pc' = [pc EXCEPT ![r] = "awaitLogic"]
            /\ responses' = responses
    /\ UNCHANGED <<uiVars, apiKey, reviewed, flow, logicResult, orchVars>>

\* server.ts:26-46: the vision call settles; parse it, start the logic call.
VisionReply(r, reply) ==
    /\ pc[r] = "awaitVision"
    /\ IF reply.kind = "reject" \/ JsonParseThrows(OrEmptyObject(reply.text))
       THEN /\ responses' = [responses EXCEPT ![r] = Catch(@)]
            /\ pc' = [pc EXCEPT ![r] = "done"]
            /\ inflight' = [inflight EXCEPT ![r] = NoCall]
            /\ UNCHANGED <<visionResult, calls>>
       ELSE /\ visionResult' =
                [visionResult EXCEPT ![r] = JsonParse(OrEmptyObject(reply.text))]
            /\ calls' = [calls EXCEPT ![r] = Append(@, "logic")]
            /\ inflight' = [inflight EXCEPT ![r] = LogicCall(visionResult'[r])]
            /\ pc' = [pc EXCEPT ![r] = "awaitLogic"]
            /\ responses' = responses
    /\ UNCHANGED <<uiVars, apiKey, reviewed, flow, logicResult, orchVars>>

\* server.ts:42-64: the logic call settles; parse it, aggregate, answer.
LogicReply(r, reply) ==
    /\ pc[r] = "awaitLogic"
    /\ pc' = [pc EXCEPT ![r] = "done"]
    /\ inflight' = [inflight EXCEPT ![r] = NoCall]
    /\ IF reply.kind = "reject" \/ JsonParseThrows(OrEmptyObject(reply.text))
       THEN /\ responses' = [responses EXCEPT ![r] = Catch(@)]
            /\ logicResult' = logicResult
       ELSE /\ logicResult' =
                [logicResult EXCEPT ![r] = JsonParse(OrEmptyObject(reply.text))]
            /\ IF visionResult[r].t = "null" \/ logicResult'[r].t = "null"
               THEN \* reading a property of null throws a TypeError
                    responses' = [responses EXCEPT ![r] = Catch(@)]
               ELSE responses' = [responses EXCEPT ![r] =
                        Send(@, SuccessBody(visionResult[r], logicResult'[r]))]
    /\ UNCHANGED <<uiVars, apiKey, reviewed, flow, visionResult, calls, orchVars>>

\* ------------------------------------- PYTHON_PSEUDO_CODE.verify_document

\* What an awaited coroutine can do: return, or raise.
Outcomes == {"ok", "raise"}

\* vision_res as the vision engine can return it.
VisionResults == {[t |-> "object", score |-> Num(n), high |-> 0] : n \in {120, 200}}

\* server.ts:159  aggregate_scores is called and nowhere defined; the data
\* model (I1) puts its value in [0,1].
AggregateScores == {Num(n) : n \in InRange}

\* server.ts:147
LivenessFailure ==
    [status |-> "REJECTED", reason |-> "Liveness Failure", proof_token |-> FALSE]

\* server.ts:162  route_to_hitl is called and nowhere defined; by the design
\* (HITLRouter.openCase) it opens an audit case and the request is pending:
\* no proof is generated and nothing is purged before the case is resolved.
RouteToHitlResult ==
    [status |-> "PENDING_HITL", reason |-> "", proof_token |-> FALSE]

\* server.ts:168
Verified ==
    [status |-> "VERIFIED", reason |-> "", proof_token |-> TRUE]

\* server.ts:144  verify_document is called.
VerifyDocument(r) ==
    /\ pc[r] = "idle"
    /\ flow' = [flow EXCEPT ![r] = "orchestrator"]
    /\ pc' = [pc EXCEPT ![r] = "check_liveness"]
    /\ UNCHANGED <<uiVars, apiKey, reviewed, inflight, visionResult, logicResult, calls,
                   responses, orchVars>>

\* server.ts:146-151: the liveness check settles; on a pass both analysis
\* tasks are created, vision first.
CheckLiveness(r, live) ==
    /\ pc[r] = "check_liveness"
    /\ IF live = "raise"
       THEN /\ pc' = [pc EXCEPT ![r] = "raised"]
            /\ UNCHANGED <<gate, result, tasks, calls>>
       ELSE IF live = "false"
       THEN /\ gate' = [gate EXCEPT ![r] = "failed"]
            /\ result' = [result EXCEPT ![r] = LivenessFailure]
            /\ pc' = [pc EXCEPT ![r] = "returned"]
            /\ UNCHANGED <<tasks, calls>>
       ELSE /\ gate' = [gate EXCEPT ![r] = "passed"]
            /\ tasks' = [tasks EXCEPT ![r] =
                            [vision |-> "running", forensic |-> "running"]]
            /\ calls' = [calls EXCEPT ![r] = @ \o <<"vision", "forensic">>]
            /\ pc' = [pc EXCEPT ![r] = "gather"]
            /\ result' = result
    /\ UNCHANGED <<uiVars, apiKey, reviewed, flow, inflight, visionResult, logicResult,
                   responses, score, tokens, purges>>

\* server.ts:150  the vision task settles (it runs on whatever the caller does).
VisionTask(r, out, res) ==
    /\ tasks[r].vision = "running"
    /\ IF out = "ok"
       THEN /\ tasks' = [tasks EXCEPT ![r].vision = "done"]
            /\ visionResult' = [visionResult EXCEPT ![r] = res]
       ELSE /\ tasks' = [tasks EXCEPT ![r].vision = "raised"]
            /\ visionResult' = visionResult
    /\ UNCHANGED <<uiVars, apiKey, reviewed, flow, pc, inflight, logicResult, calls, responses,
                   gate, score, tokens, purges, result>>

\* server.ts:151  the forensic task settles.
ForensicTask(r, out) ==
    /\ tasks[r].forensic = "running"
    /\ tasks' = [tasks EXCEPT ![r].forensic =
                    IF out = "ok" THEN "done" ELSE "raised"]
    /\ UNCHANGED <<uiVars, apiKey, reviewed, flow, pc, inflight, visionResult, logicResult,
                   calls, responses, gate, score, tokens, purges, result>>

\* server.ts:153-156: asyncio.gather raises the first exception of a task,
\* and returns once both tasks are done; then the logic call is made with
\* vision_res.
Gather(r) ==
    /\ pc[r] = "gather"
    /\ IF "raised" \in {tasks[r].vision, tasks[r].forensic}
       THEN /\ pc' = [pc EXCEPT ![r] = "raised"]
            /\ UNCHANGED <<calls, inflight>>
       ELSE /\ tasks[r].vision = "done"
            /\ tasks[r].forensic = "done"
            /\ calls' = [calls EXCEPT ![r] = Append(@, "logic")]
            /\ inflight' = [inflight EXCEPT ![r] = LogicCall(visionResult[r])]
            /\ pc' = [pc EXCEPT ![r] = "validate_narrative"]
    /\ UNCHANGED <<uiVars, apiKey, reviewed, flow, visionResult, logicResult, responses,
                   orchVars>>

\* server.ts:156-165: the logic call settles, the score is aggregated and
\* the flow branches on it.
ValidateNarrative(r, out, s) ==
    /\ pc[r] = "validate_narrative"
    /\ inflight' = [inflight EXCEPT ![r] = NoCall]
    /\ IF out = "raise"
       THEN /\ pc' = [pc EXCEPT ![r] = "raised"]
            /\ score' = score
       ELSE /\ score' = [score EXCEPT ![r] = s]
            /\ pc' = [pc EXCEPT ![r] =
                         IF s.n < ORCH_THRESHOLD THEN "route_to_hitl"
                         ELSE "generate_proof"]
    /\ UNCHANGED <<uiVars, apiKey, reviewed, flow, visionResult, logicResult, calls, responses,
                   gate, tasks, tokens, purges, result>>

\* server.ts:162  return await self.route_to_hitl(doc_payload, score)
RouteToHitl(r, out) ==
    /\ pc[r] = "route_to_hitl"
    /\ IF out = "raise"
       THEN /\ pc' = [pc EXCEPT ![r] = "raised"]
            /\ result' = result
       ELSE /\ pc' = [pc EXCEPT ![r] = "returned"]
            /\ result' = [result EXCEPT ![r] = RouteToHitlResult]
    /\ UNCHANGED <<uiVars, apiKey, reviewed, flow, inflight, visionResult, logicResult, calls,
                   responses, gate, tasks, score, tokens, purges>>

\* server.ts:165  token = await self.zkp.generate_proof(...)
GenerateProof(r, out) ==
    /\ pc[r] = "generate_proof"
    /\ IF out = "raise"
       THEN /\ pc' = [pc EXCEPT ![r] = "raised"]
            /\ tokens' = tokens
       ELSE /\ pc' = [pc EXCEPT ![r] = "purge_pii"]
            /\ tokens' = [tokens EXCEPT ![r] = @ + 1]
    /\ UNCHANGED <<uiVars, apiKey, reviewed, flow, inflight, visionResult, logicResult, calls,
                   responses, gate, tasks, score, purges, result>>

\* server.ts:166-168  await self.purge_pii(...); return VerificationResult.
\* Each purge is logged with the status the request had when it ran.
PurgePii(r, out) ==
    /\ pc[r] = "purge_pii"
    /\ IF out = "raise"
       THEN /\ pc' = [pc EXCEPT ![r] = "raised"]
            /\ UNCHANGED <<purges, result>>
       ELSE /\ pc' = [pc EXCEPT ![r] = "returned"]
            /\ purges' = [purges EXCEPT ![r] = Append(@, result[r].status)]
            /\ result' = [result EXCEPT ![r] = Verified]
    /\ UNCHANGED <<uiVars, apiKey, reviewed, flow, inflight, visionResult, logicResult, calls,
                   responses, gate, tasks, score, tokens>>

NextOrchestrator ==
    \/ \E r \in Requests : VerifyDocument(r)
    \/ \E r \in Requests, live \in {"true", "false", "raise"} : CheckLiveness(r, live)
    \/ \E r \in Requests, out \in Outcomes, res \in VisionResults : VisionTask(r, out, res)
    \/ \E r \in Requests, out \in Outcomes : ForensicTask(r, out)
    \/ \E r \in Requests : Gather(r)
    \/ \E r \in Requests, out \in Outcomes, s \in AggregateScores : ValidateNarrative(r, out, s)
    \/ \E r \in Requests, out \in Outcomes : RouteToHitl(r, out)
    \/ \E r \in Requests, out \in Outcomes : GenerateProof(r, out)
    \/ \E r \in Requests, out \in Outcomes : PurgePii(r, out)

SpecOrchestrator == Init /\ [][NextOrchestrator]_vars

\* ------------------------------------------------- App: Manual Override

\* The status the request was answered with ("" when it has none).
StatusOf(r) ==
    IF Successes(r) = {} THEN "" ELSE (CHOOSE x \in Successes(r) : TRUE).status

\* server.ts:747-749  the 'Approve Verification' button: it has no onClick,
\* so a click on it runs no code.  The reviewer clicks it for a request that
\* is pending review.
ApproveVerification(r) ==
    /\ StatusOf(r) = "PENDING_HITL"
    /\ reviewed' = [reviewed EXCEPT ![r] = "approve"]
    /\ UNCHANGED <<uiVars, apiKey, flow, pc, inflight, visionResult, logicResult,
                   calls, responses, orchVars>>

\* server.ts:750-752  the 'Reject & Flag' button: no onClick either.
RejectAndFlag(r) ==
    /\ StatusOf(r) = "PENDING_HITL"
    /\ reviewed' = [reviewed EXCEPT ![r] = "reject"]
    /\ UNCHANGED <<uiVars, apiKey, flow, pc, inflight, visionResult, logicResult,
                   calls, responses, orchVars>>

\* ------------------------------------------------- App: handleFileUpload

\* React state: the updates queued in one synchronous stretch of code (an
\* event handler up to its first await, a continuation up to its next
\* await) are applied together, so every such stretch is one step here
\* and the states between the steps are the states rendered.

\* server.ts:231, 326  the tabs; only the dashboard holds the file input.
Tabs == {"dashboard", "architecture", "logic", "checklist", "audit"}

\* e.target.files?.[0]: a file, or none.
Files == {"passport.png", "selfie.jpg"}
NoFile == "none"

\* 'GRD-' + Math.random()...: some identifier.
Ids == {"GRD-A1B2C3", "GRD-X9Y8Z7"}

\* server.ts:238-245  steps.length
NumSteps == 6

\* server.ts:282, 289  confidence 0.982 and logicScore 0.99, in thousandths.
MOCK_CONFIDENCE == 982
MOCK_LOGIC_SCORE == 990

\* server.ts:247-254  feedbackMessages (feedbackMessages[i] is the i+1-th).
feedbackMessages ==
    << "Detecting hardware signature...",
       "Analyzing frame for digital overlays...",
       "Scanning for hologram glare...",
       "Adjusting focus for micro-text...",
       "Validating stamp alignment...",
       "Checking font kerning consistency..." >>

\* server.ts:272  the message of the glare simulation.
GlareMessage == "Too much glare on hologram. Adjusting filters..."

\* server.ts:280-296  the mock result; the timestamp, the anomalies and
\* the extracted data are literals no code reads back.
MockResult(id) ==
    [t |-> "object", status |-> "VERIFIED", confidence |-> MOCK_CONFIDENCE,
     id |-> id, logicScore |-> MOCK_LOGIC_SCORE]

\* server.ts:326  a click on a tab.
SetActiveTab(tab) ==
    /\ tab # activeTab
    /\ activeTab' = tab
    /\ UNCHANGED <<isUploading, verificationResult, currentStep,
                   scanningMessage, run>>
    /\ UNCHANGED <<apiKey, reviewed, flow, pc, inflight, visionResult,
                   logicResult, calls, responses, orchVars>>

\* Mutant: the input is not disabled during an upload.
InputAlwaysEnabled == activeTab = "dashboard"

\* server.ts:354, 383-388  the file input is rendered on the dashboard and
\* disabled while isUploading.
InputEnabled == activeTab = "dashboard" /\ ~isUploading

\* server.ts:267-276  the loop body at step i up to its first await: the
\* message and the await the call is suspended at.
StepMessage(i) == IF i = 2 THEN GlareMessage ELSE feedbackMessages[i + 1]
StepAwait(i) == IF i = 2 THEN "glare" ELSE "sleep"

\* Mutant: the result of the previous upload is not cleared.
HandleFileUploadKeepsResult(u, f) ==
    /\ InputEnabled
    /\ run[u].pc = "idle"
    /\ IF f = NoFile
       THEN /\ run' = [run EXCEPT ![u] = [pc |-> "returned", i |-> 0,
                                          file |-> f]]
            /\ UNCHANGED <<isUploading, verificationResult, currentStep,
                           scanningMessage>>
       ELSE /\ isUploading' = TRUE
            /\ UNCHANGED verificationResult
            /\ currentStep' = 0
            /\ scanningMessage' = StepMessage(0)
            /\ run' = [run EXCEPT ![u] = [pc |-> StepAwait(0), i |-> 0,
                                          file |-> f]]
    /\ UNCHANGED <<activeTab, apiKey, reviewed, flow, pc, inflight,
                   visionResult, logicResult, calls, responses, orchVars>>

\* server.ts:256-277  handleFileUpload from the change event to the first
\* await: no file, return; otherwise the four set calls and the loop body
\* at i = 0.
HandleFileUpload(u, f) ==
    /\ InputEnabled
    /\ run[u].pc = "idle"
    /\ IF f = NoFile
       THEN /\ run' = [run EXCEPT ![u] = [pc |-> "returned", i |-> 0,
                                          file |-> f]]
            /\ UNCHANGED <<isUploading, verificationResult, currentStep,
                           scanningMessage>>
       ELSE /\ isUploading' = TRUE
            /\ verificationResult' = Null
            /\ currentStep' = 0
            /\ scanningMessage' = StepMessage(0)
            /\ run' = [run EXCEPT ![u] = [pc |-> StepAwait(0), i |-> 0,
                                          file |-> f]]
    /\ UNCHANGED <<activeTab, apiKey, reviewed, flow, pc, inflight,
                   visionResult, logicResult, calls, responses, orchVars>>

\* server.ts:273-276  the 1200 ms timer of step 2 fires; the call goes on
\* to the 800 ms await.
GlareTimer(u) ==
    /\ run[u].pc = "glare"
    /\ run' = [run EXCEPT ![u].pc = "sleep"]
    /\ UNCHANGED <<activeTab, isUploading, verificationResult, currentStep,
                   scanningMessage>>
    /\ UNCHANGED <<apiKey, reviewed, flow, pc, inflight, visionResult,
                   logicResult, calls, responses, orchVars>>

\* Mutant: the loop counts in twos.
NextStepSkips(i) == i + 2

\* server.ts:266  i++
NextStep(i) == i + 1

\* server.ts:266-276  the loop goes on with step n.
Advance(u, n) ==
    /\ currentStep' = n
    /\ scanningMessage' = StepMessage(n)
    /\ run' = [run EXCEPT ![u].pc = StepAwait(n), ![u].i = n]
    /\ UNCHANGED <<isUploading, verificationResult>>

\* Mutant: isUploading is left set.
PublishKeepsUploading(u) ==
    /\ \E id \in Ids : verificationResult' = MockResult(id)
    /\ scanningMessage' = ""
    /\ run' = [run EXCEPT ![u].pc = "done"]
    /\ UNCHANGED <<isUploading, currentStep>>

\* server.ts:280-298  the loop is over: the mock result is published.
Publish(u) ==
    /\ \E id \in Ids : verificationResult' = MockResult(id)
    /\ isUploading' = FALSE
    /\ scanningMessage' = ""
    /\ run' = [run EXCEPT ![u].pc = "done"]
    /\ UNCHANGED currentStep

\* server.ts:266, 276-298  the 800 ms timer fires: i++, then the loop body
\* again or the code after the loop.
StepTimer(u) ==
    /\ run[u].pc = "sleep"
    /\ IF NextStep(run[u].i) < NumSteps
       THEN Advance(u, NextStep(run[u].i))
       ELSE Publish(u)
    /\ UNCHANGED <<activeTab, apiKey, reviewed, flow, pc, inflight,
                   visionResult, logicResult, calls, responses, orchVars>>

\* ---------------------------------------------------------- specifications

Next ==
    \/ \E r \in Requests, img \in Images : Receive(r, img)
    \/ \E r \in Requests, reply \in Replies : VisionReply(r, reply)
    \/ \E r \in Requests, reply \in Replies : LogicReply(r, reply)

Spec == Init /\ [][Next]_vars

\* The handler together with a reviewer at the Manual Override buttons.
NextReview ==
    \/ Next
    \/ \E r \in Requests : ApproveVerification(r)
    \/ \E r \in Requests : RejectAndFlag(r)

SpecReview == Init /\ [][NextReview]_vars

\* The handler with engines that report high-severity descriptors.
NextAnomalies ==
    \/ \E r \in Requests, img \in Images : Receive(r, img)
    \/ \E r \in Requests, reply \in AnomalyReplies : VisionReply(r, reply)
    \/ \E r \in Requests, reply \in AnomalyReplies : LogicReply(r, reply)

SpecAnomalies == Init /\ [][NextAnomalies]_vars

\* The dashboard: the user switches tabs and chooses files; the timers of
\* setTimeout fire, each one in the end.
NextUI ==
    \/ \E tab \in Tabs : SetActiveTab(tab)
    \/ \E u \in Uploads, f \in Files \cup {NoFile} : HandleFileUpload(u, f)
    \/ \E u \in Uploads : GlareTimer(u)
    \/ \E u \in Uploads : StepTimer(u)

SpecUI ==
    /\ Init
    /\ [][NextUI]_vars
    /\ \A u \in Uploads : WF_vars(GlareTimer(u)) /\ WF_vars(StepTimer(u))

\* ------------------------------------------------------------------ claims

InUnit(a) == IsNum(a) /\ a.n \in 0..ONE
Exited(r) == pc[r] \in {"done", "returned", "raised"}
Statuses == {"VERIFIED", "PENDING_HITL", "REJECTED"}

\* The band of a confidence when both thresholds are inclusive.
InclusiveBand(n) ==
    IF n >= VERIFIED_THRESHOLD THEN "VERIFIED"
    ELSE IF n >= HITL_THRESHOLD THEN "PENDING_HITL"
    ELSE "REJECTED"

\* C1: every final confidence c is routed to VERIFIED when c >= 0.85, to
\* PENDING_HITL when 0.60 <= c < 0.85 and to REJECTED when c < 0.60, in the
\* handler's response and in the orchestrator's result alike.
C1_InclusiveThresholds ==
    \A r \in Requests :
        /\ \A x \in Successes(r) :
               IsNum(x.confidence) => x.status = InclusiveBand(x.confidence.n)
        /\ pc[r] = "returned" /\ IsNum(score[r])
               => result[r].status = InclusiveBand(score[r].n)

C3_ConfidenceInUnit ==
    \A r \in Requests : \A x \in Successes(r) :
        InUnit(x.vision.score) /\ InUnit(x.logic.score) => InUnit(x.confidence)

\* Both ends of the range have been answered from in-range signals.
C3_Witness ==
    \E r1, r2 \in Requests :
        /\ \E x \in Successes(r1) :
               /\ InUnit(x.vision.score) /\ InUnit(x.logic.score)
               /\ x.confidence = Num(ONE)
        /\ \E x \in Successes(r2) :
               /\ InUnit(x.vision.score) /\ InUnit(x.logic.score)
               /\ x.confidence = Num(0)

\* C4: a reply that is empty or lacks its confidence field never leads to a
\* success response: no response with a status and a confidence is built on
\* a missing signal.
C4_MissingSignalIsFailure ==
    \A r \in Requests : \A x \in Successes(r) :
        /\ x.vision.score # Undefined
        /\ x.logic.score # Undefined

\* C5: a confidence outside [0,1] is left out of the aggregation: with one
\* signal out of range the final confidence is the other signal's, and with
\* no signal in range the status is not VERIFIED.
C5_OutOfRangeExcluded ==
    \A r \in Requests : \A x \in Successes(r) :
        LET v == x.vision.score
            l == x.logic.score
        IN  /\ IsNum(v) /\ ~InUnit(v) /\ InUnit(l) => x.confidence = l
            /\ IsNum(l) /\ ~InUnit(l) /\ InUnit(v) => x.confidence = v
            /\ ~InUnit(v) /\ ~InUnit(l) => x.status # "VERIFIED"

\* C6: on every exit of the verify operation the purge has run exactly once,
\* and no purge runs before the request's status is set.
C6_PurgeExactlyOnce ==
    \A r \in Requests :
        /\ Exited(r) => Len(purges[r]) = 1
        /\ \A i \in 1..Len(purges[r]) : purges[r][i] # "none"

\* C7: a proof token is issued iff the outcome is VERIFIED, and at most once.
C7_TokenIffVerified ==
    \A r \in Requests :
        /\ tokens[r] <= 1
        /\ \A x \in Successes(r) : (x.status = "VERIFIED") <=> (tokens[r] = 1)
        /\ pc[r] = "returned" =>
               /\ (result[r].status = "VERIFIED") <=> (tokens[r] = 1)
               /\ result[r].proof_token <=> (tokens[r] = 1)

\* C8: no engine is called unless the attestation/liveness gate has passed,
\* and a failed gate ends the request REJECTED with no engine call.
C8_GateBeforeEngines ==
    \A r \in Requests :
        /\ calls[r] # <<>> => gate[r] = "passed"
        /\ gate[r] = "failed" =>
               /\ calls[r] = <<>>
               /\ pc[r] = "returned"
               /\ result[r].status = "REJECTED"

\* C9: the logic call is made only after the vision result (and in the
\* orchestrator the forensic result) has been received, and it carries that
\* vision result.
C9_LogicAfterEvidence ==
    \A r \in Requests :
        /\ (\E i \in 1..Len(calls[r]) : calls[r][i] = "logic") =>
               /\ calls[r][1] = "vision"
               /\ visionResult[r] # Unset
               /\ flow[r] = "orchestrator" =>
                      tasks[r].vision = "done" /\ tasks[r].forensic = "done"
        /\ inflight[r].engine = "logic" => inflight[r].input = visionResult[r]

\* A logic call of the handler is in flight, carrying a vision result that
\* holds a number.
C9_Witness ==
    \E r \in Requests :
        /\ flow[r] = "handler"
        /\ inflight[r].engine = "logic"
        /\ IsNum(inflight[r].input.score)

\* C10: a request of the handler is answered exactly once when the handler is
\* done and not before, never twice, and a success response carries one of
\* the three statuses.
C10_ExactlyOneResponse ==
    \A r \in Requests :
        /\ Len(responses[r]) <= 1
        /\ pc[r] = "done" <=> Len(responses[r]) = 1
        /\ \A x \in Successes(r) : x.status \in Statuses

\* One request ended in the catch block and another with a success response.
C10_Witness ==
    \E r1, r2 \in Requests :
        /\ pc[r1] = "done" /\ pc[r2] = "done"
        /\ \E x \in Sent(r1) : x.error = "Verification failed"
        /\ \E x \in Sent(r2) : x.code = 200

\* C11: without the credential a request of the handler ends at once with the
\* configuration error: no engine is called for it, it is never suspended on
\* a call, and the one response it gets is the configuration error.
C11_NoKeyNoCall ==
    ~apiKey =>
        \A r \in Requests :
            flow[r] = "handler" =>
                /\ calls[r] = <<>>
                /\ inflight[r] = NoCall
                /\ pc[r] = "done"
                /\ responses[r] = <<ConfigErrorBody>>

\* Without the credential, every request has been answered.
C11_Witness ==
    /\ ~apiKey
    /\ \A r \in Requests : flow[r] = "handler" /\ Len(responses[r]) = 1

\* A request that ended in an error before any engine was called although the
\* credential is set: its body was malformed (documentImage is missing).
ValidationFailure(r) ==
    /\ apiKey /\ flow[r] = "handler" /\ pc[r] = "done"
    /\ calls[r] = <<>>
\* A request that ended in an error after an engine call: the upstream failed.
UpstreamFailure(r) ==
    /\ flow[r] = "handler" /\ pc[r] = "done"
    /\ calls[r] # <<>>
    /\ Successes(r) = {}

\* C12: the response to a validation failure differs from the response to an
\* upstream engine failure (and both from the configuration error).
C12_ErrorClassesDistinct ==
    \A r1, r2 \in Requests :
        ValidationFailure(r1) /\ UpstreamFailure(r2) =>
            /\ responses[r1] # responses[r2]
            /\ responses[r1] # <<ConfigErrorBody>>
            /\ responses[r2] # <<ConfigErrorBody>>

\* C13: no engine call is made for a malformed request: every vision call
\* carries the payload of a data URL.
C13_MalformedNoCall ==
    \A r \in Requests :
        inflight[r].engine = "vision" => inflight[r].data = "payload"

\* C14: a failed engine call still ends in a decision: once the vision result
\* is there, the request ends with a status whatever the logic call does.
C14_FailureStillDecides ==
    [][\A r \in Requests :
          pc[r] = "awaitLogic" /\ pc'[r] = "done" =>
              \A i \in 1..Len(responses'[r]) :
                  responses'[r][i].status \in Statuses]_vars

\* C15: every response carries a status and a confidence.
C15_StatusAndConfidence ==
    \A r \in Requests : \A x \in Sent(r) :
        /\ x.status \in Statuses
        /\ x.confidence # Undefined

\* C16: a reviewer's decision resolves a pending request: after Approve the
\* request's status is VERIFIED and after Reject it is REJECTED, so no
\* request on which a reviewer has acted is left PENDING_HITL.
C16_ReviewResolves ==
    \A r \in Requests :
        /\ reviewed[r] = "approve" => StatusOf(r) = "VERIFIED"
        /\ reviewed[r] = "reject" => StatusOf(r) = "REJECTED"

\* C17: requests share no state.  A step in which a request's handler does
\* not move leaves that request's variables alone, and the response a request
\* gets holds the vision result it sent to the logic engine, the logic result
\* of its own reply, and the confidence and status computed from these two.
C17_NoSharedRequestState ==
    [][\A r \in Requests :
          /\ pc'[r] = pc[r] =>
                 /\ visionResult'[r] = visionResult[r]
                 /\ logicResult'[r] = logicResult[r]
                 /\ inflight'[r] = inflight[r]
                 /\ calls'[r] = calls[r]
                 /\ responses'[r] = responses[r]
          /\ pc[r] = "awaitLogic" /\ pc'[r] = "done" =>
                 \A i \in 1..Len(responses'[r]) :
                     LET x == responses'[r][i]
                     IN  x.code = 200 =>
                             /\ x.vision = inflight[r].input
                             /\ x.logic = logicResult'[r]
                             /\ x.confidence = FinalConfidence(x.vision, x.logic)
                             /\ x.status = Route(x.confidence)]_vars

\* Two requests are suspended on their logic calls at the same time, with
\* different vision results.
C17_Witness ==
    \E r1, r2 \in Requests :
        /\ pc[r1] = "awaitLogic" /\ pc[r2] = "awaitLogic"
        /\ IsNum(visionResult[r1].score) /\ IsNum(visionResult[r2].score)
        /\ visionResult[r1] # visionResult[r2]

Rank(st) == IF st = "VERIFIED" THEN 2 ELSE IF st = "PENDING_HITL" THEN 1 ELSE 0
NumericSignals(x) == IsNum(x.vision.score) /\ IsNum(x.logic.score)

\* C18: of two responses with the same logic score the one with the higher
\* vision confidence has a final confidence and a band at least as high, and
\* likewise for the logic score with the vision confidence held fixed.
C18_Monotonic ==
    \A x, y \in AllSuccesses :
        /\ NumericSignals(x) /\ NumericSignals(y)
        /\ \/ x.logic.score = y.logic.score /\ x.vision.score.n <= y.vision.score.n
           \/ x.vision.score = y.vision.score /\ x.logic.score.n <= y.logic.score.n
        => /\ x.confidence.n <= y.confidence.n
           /\ Rank(x.status) <= Rank(y.status)

\* Raising the vision confidence alone has raised the confidence and the band.
C18_Witness ==
    \E x, y \in AllSuccesses :
        /\ NumericSignals(x) /\ NumericSignals(y)
        /\ x.logic.score = y.logic.score
        /\ x.vision.score.n < y.vision.score.n
        /\ x.confidence.n < y.confidence.n
        /\ Rank(x.status) < Rank(y.status)

High(x) == x.vision.high + x.logic.high

\* C19: for fixed signal confidences a high-severity descriptor never raises
\* the final confidence, and the confidence with every descriptor present is
\* lower than the confidence with none.
C19_AnomalyPenalty ==
    \A x, y \in AllSuccesses :
        x.vision.score = y.vision.score /\ x.logic.score = y.logic.score =>
            /\ High(x) >= High(y) => x.confidence.n <= y.confidence.n
            /\ High(x) = 2 * MaxHigh /\ High(y) = 0
                   => x.confidence.n < y.confidence.n

\* ------------------------------------------------------ claims on the App

\* The calls of handleFileUpload suspended at an await.
InFlight == {u \in Uploads : run[u].pc \in {"glare", "sleep"}}

\* Call u ends in this step.
Ends(u) == run[u].pc # "done" /\ run'[u].pc = "done"

\* C21: every upload with a file selected terminates: a call suspended at
\* a timer reaches its end; the step that ends it comes after the six
\* steps, clears isUploading and the scanning message and publishes
\* status VERIFIED with confidence 0.982 for any file; and no request
\* reaches the verification server.
C21_UploadTerminates ==
    /\ \A u \in Uploads : (u \in InFlight) ~> (run[u].pc = "done")
    /\ [][\A u \in Uploads :
            Ends(u) =>
                /\ run[u].i = NumSteps - 1
                /\ run[u].file \in Files
                /\ isUploading' = FALSE
                /\ scanningMessage' = ""
                /\ verificationResult'.status = "VERIFIED"
                /\ verificationResult'.confidence = MOCK_CONFIDENCE]_vars
    /\ [](\A r \in Requests : flow[r] = "none" /\ calls[r] = <<>>)

C21_Witness ==
    /\ \A u \in Uploads : run[u].pc = "done"
    /\ \E u, w \in Uploads : run[u].file # run[w].file
    /\ ~isUploading
    /\ verificationResult # Null

\* C22: during a run the displayed step starts at 0 and only ever moves to
\* the next step, and the result is published only from step 5, once its
\* delay is over.
C22_StepsInOrder ==
    [][/\ (~isUploading /\ isUploading') => currentStep' = 0
       /\ (isUploading /\ isUploading') =>
              currentStep' \in {currentStep, currentStep + 1}
       /\ (verificationResult = Null /\ verificationResult' # Null) =>
              /\ currentStep = NumSteps - 1
              /\ currentStep' = currentStep
              /\ \E u \in Uploads : run[u].pc = "sleep" /\ Ends(u)]_vars

C22_Witness ==
    /\ verificationResult # Null
    /\ currentStep = NumSteps - 1
    /\ \E u \in Uploads : run[u].pc = "done" /\ run[u].i = NumSteps - 1

\* C23: while isUploading is true, verificationResult is null.
C23_NoResultWhileUploading == isUploading => verificationResult = Null

\* A second upload is running after the first one published its result.
C23_Witness ==
    /\ isUploading
    /\ \E u \in Uploads : run[u].pc = "done"
    /\ currentStep > 0

\* C24: at most one handleFileUpload call is in flight, and isUploading is
\* true exactly while one is.
C24_OneUploadInFlight ==
    /\ Cardinality(InFlight) <= 1
    /\ isUploading <=> InFlight # {}

C24_Witness ==
    /\ \E u \in Uploads : run[u].pc = "done"
    /\ \E u \in InFlight : run[u].i > 0
    /\ activeTab # "dashboard"

=============================================================================
